---- MODULE Spec2Model ----
(***************************************************************************)
(* Model of the conversation-memory demo (src/test_compression.py):        *)
(* the completion client call_deepseek_api, the summary builder, the      *)
(* token estimate, the JSON snapshot store under memory/, and main().     *)
(*                                                                         *)
(* Texts (Python str) are sequences of pieces.  A piece is either a       *)
(* single character ("a", "\"", "\\", "\n", a digit) or a named chunk     *)
(* standing for a fixed literal of the source whose length ChunkLen       *)
(* gives.  Concatenation is \o, len() is the sum of the piece lengths.    *)
(***************************************************************************)
EXTENDS Integers, Sequences, FiniteSets, TLC

VARIABLES
    memory_dir,      \* does the directory "memory" exist
    files,           \* memory/: file name -> file content
    now,             \* wall clock, in half seconds
    pc,              \* position of the process in main()
    runs,            \* number of process starts so far
    conversation_history,
    qi,              \* questions of test_questions asked in this run
    total_tokens_without_compression,
    total_tokens_with_compression,
    saved_filepath,
    obs,             \* what the last step did (observation for the properties)
    arg,             \* input of the last direct call of a function
    ret              \* its result

vars == << memory_dir, files, now, pc, runs, conversation_history, qi,
           total_tokens_without_compression, total_tokens_with_compression,
           saved_filepath, obs, arg, ret >>

-----------------------------------------------------------------------------
(* Bounds of the model *)

MaxRuns == 2
MaxClock == 2
MaxTurns == 2
MaxMessages == 3
MaxFrames == 2
MaxSentences == 3
MaxQuestions == 3
MaxStarts == 4

-----------------------------------------------------------------------------
(* Python strings *)

Digits == << "0", "1", "2", "3", "4", "5", "6", "7", "8", "9" >>

RECURSIVE Str(_)
\* str(n) / f"{n}" of a non-negative int
Str(n) == IF n < 10 THEN << Digits[n + 1] >>
          ELSE Str(n \div 10) \o << Digits[(n % 10) + 1] >>

\* the length in characters of a piece
ChunkLen(p) ==
    CASE p = "Q1" -> 31  [] p = "Q2" -> 34  [] p = "Q3" -> 28
      [] p = "Q4" -> 36  [] p = "Q5" -> 50  [] p = "Q6" -> 32
      [] p = "Q7" -> 71  [] p = "Q8" -> 28
      [] p = "Error: " -> 7
      [] p = "SUMMARY_HEAD" -> 36
      [] p = " messages):" -> 12
      [] p = "PROMPT_HEAD" -> 174
      [] p = "PROMPT_TAIL" -> 30
      [] p = "SUMMARY_INSTRUCTION" -> 85
      [] p = "USER" -> 4
      [] p = "ASSISTANT" -> 9
      [] p = "SYSTEM" -> 6
      [] p = ": " -> 2
      [] p = "Max retries exceeded (Name or service not known)" -> 279
      [] p = "Max retries exceeded (Connection refused)" -> 273
      [] p = "401 Client Error: Unauthorized for url: DEEPSEEK_API_URL" -> 84
      [] p = "500 Server Error: Internal Server Error for url: DEEPSEEK_API_URL"
            -> 93
      [] p = "Expecting value: line 1 column 1 (char 0)" -> 41
      [] p = "list indices must be integers or slices, not str"
            -> 48
      [] p = "'choices'" -> 9
      [] p = "list index out of range" -> 23
      [] p = "'message'" -> 9
      [] p = "'content'" -> 9
      [] p = "'NoneType' object has no attribute 'get'" -> 40
      [] OTHER -> 1

RECURSIVE len(_)
\* len(s)
len(s) == IF s = << >> THEN 0 ELSE ChunkLen(Head(s)) + len(Tail(s))

Turn(role, content) == [role |-> role, content |-> content]

\* src/test_compression.py:183-193; each question is one chunk
test_questions == << <<"Q1">>, <<"Q2">>, <<"Q3">>, <<"Q4">>,
                     <<"Q5">>, <<"Q6">>, <<"Q7">>, <<"Q8">> >>

-----------------------------------------------------------------------------
(* The completion service as call_deepseek_api sees it.  A response says   *)
(* what each step of the call does: requests.post (transport), the HTTP    *)
(* status, whether the body is JSON, and the shape of the JSON value.      *)

UsageKeys == { "total_tokens", "prompt_tokens", "completion_tokens" }

\* a well-formed completion carrying the text t and the usage counters u
GoodResponse(t, u) ==
    [ transport |-> "ok", status |-> 200, json |-> TRUE, object |-> TRUE,
      choices |-> 1, message |-> TRUE, content |-> "str", text |-> t,
      usage |-> "dict", counters |-> u ]

FullUsage == [ k \in UsageKeys |->
                 CASE k = "total_tokens" -> 10
                   [] k = "prompt_tokens" -> 7
                   [] OTHER -> 3 ]

NoCounters == [ k \in {} |-> 0 ]

ZeroUsage == [ total_tokens |-> 0, prompt_tokens |-> 0, completion_tokens |-> 0 ]

\* dict.get(key, 0) on the usage object of the response
UsageGet(counters, key) == IF key \in DOMAIN counters THEN counters[key] ELSE 0

\* the exception the try block of call_deepseek_api runs into, "" when none;
\* the steps are taken in the order of lines 43-56
RaisedIn(resp) ==
    IF resp.transport # "ok" THEN resp.transport            \* requests.post
    ELSE IF resp.status >= 500                               \* raise_for_status
         THEN "500 Server Error: Internal Server Error for url: DEEPSEEK_API_URL"
    ELSE IF resp.status >= 400
         THEN "401 Client Error: Unauthorized for url: DEEPSEEK_API_URL"
    ELSE IF ~resp.json                                       \* response.json()
         THEN "Expecting value: line 1 column 1 (char 0)"
    ELSE IF ~resp.object THEN "list indices must be integers or slices, not str"
    ELSE IF resp.choices < 0 THEN "'choices'"                \* result['choices']
    ELSE IF resp.choices = 0 THEN "list index out of range"  \* [0]
    ELSE IF ~resp.message THEN "'message'"                   \* ['message']
    ELSE IF resp.content = "missing" THEN "'content'"        \* ['content']
    ELSE IF resp.usage = "null"                              \* usage.get
         THEN "'NoneType' object has no attribute 'get'"
    ELSE ""

\* str(e) of the ConnectionError requests.post raises (line 43), by its
\* cause: "HTTPSConnectionPool(host='api.deepseek.com', port=443): Max
\* retries exceeded with url: /v1/chat/completions (Caused by
\* NewConnectionError('<urllib3.connection.HTTPSConnection object at
\* 0x7f..........>: Failed to establish a new connection: [Errno -2] Name
\* or service not known'))", 279 characters, or the same with "[Errno 111]
\* Connection refused", 273 characters
ConnectionErrors == { "Max retries exceeded (Name or service not known)",
                      "Max retries exceeded (Connection refused)" }

\* the class of that exception
ExcClass(e) ==
    CASE e = "" -> ""
      [] e \in ConnectionErrors -> "requests.ConnectionError"
      [] e \in { "500 Server Error: Internal Server Error for url: DEEPSEEK_API_URL",
                 "401 Client Error: Unauthorized for url: DEEPSEEK_API_URL" }
            -> "requests.HTTPError"
      [] e = "Expecting value: line 1 column 1 (char 0)" -> "JSONDecodeError"
      [] e = "list indices must be integers or slices, not str" -> "TypeError"
      [] e = "list index out of range" -> "IndexError"
      [] e = "'NoneType' object has no attribute 'get'" -> "AttributeError"
      [] OTHER -> "KeyError"

\* mutant: "except requests.RequestException" in place of "except Exception"
ExceptClause_requests(class) ==
    class \in { "requests.ConnectionError", "requests.HTTPError" }

\* "except Exception" (line 58): every one of these classes derives from it
ExceptClause(class) ==
    class \in { "requests.ConnectionError", "requests.HTTPError", "JSONDecodeError",
                "TypeError", "IndexError", "AttributeError", "KeyError" }

\* What call_deepseek_api does: raised is the class of an exception that
\* leaves the function ("" when it returns); otherwise the pair it returns,
\* text (is_str FALSE: the value None that a null content yields) and usage.
call_deepseek_api(messages, resp) ==
    LET e == RaisedIn(resp) IN
    IF e # "" /\ ExceptClause(ExcClass(e))
    THEN [ raised |-> "", is_str |-> TRUE, text |-> << "Error: ", e >>,
           usage |-> ZeroUsage ]
    ELSE IF e # ""
    THEN [ raised |-> ExcClass(e), is_str |-> FALSE, text |-> << >>,
           usage |-> ZeroUsage ]
    ELSE LET u == IF resp.usage = "missing" THEN NoCounters ELSE resp.counters IN
         [ raised |-> "",
           is_str |-> resp.content = "str",
           text   |-> IF resp.content = "str" THEN resp.text ELSE << >>,
           usage  |-> [ total_tokens      |-> UsageGet(u, "total_tokens"),
                        prompt_tokens     |-> UsageGet(u, "prompt_tokens"),
                        completion_tokens |-> UsageGet(u, "completion_tokens") ] ]

\* "\n".join(f"{msg['role'].upper()}: {msg['content']}" ...) of lines 64-67
upper(role) == CASE role = "user" -> "USER"
                 [] role = "assistant" -> "ASSISTANT"
                 [] OTHER -> "SYSTEM"

RECURSIVE conversation_text_all(_)
\* mutant: the system turns are rendered like the others
conversation_text_all(messages) ==
    IF messages = << >> THEN << >>
    ELSE LET msg  == Head(messages)
             rest == conversation_text_all(Tail(messages))
             line == << upper(msg.role), ": " >> \o msg.content
         IN  IF rest = << >> THEN line ELSE line \o << "\n" >> \o rest

RECURSIVE conversation_text(_)
conversation_text(messages) ==
    IF messages = << >> THEN << >>
    ELSE LET msg  == Head(messages)
             rest == conversation_text(Tail(messages))
         IN  IF msg.role = "system" THEN rest
             ELSE LET line == << upper(msg.role), ": " >> \o msg.content
                  IN  IF rest = << >> THEN line ELSE line \o << "\n" >> \o rest

\* the two-turn request of lines 69-81
summary_messages(messages) ==
    << Turn("system", << "SUMMARY_INSTRUCTION" >>),
       Turn("user", << "PROMPT_HEAD" >> \o conversation_text(messages)
                      \o << "PROMPT_TAIL" >>) >>

\* create_conversation_summary: one call, its text is the summary
create_conversation_summary(messages, resp) ==
    call_deepseek_api(summary_messages(messages), resp)

RECURSIVE chars(_)
chars(messages) ==
    IF messages = << >> THEN 0
    ELSE len(Head(messages).content) + chars(Tail(messages))

\* mutant: the estimate is rounded up
calculate_tokens_ceil(messages) == (chars(messages) + 3) \div 4

calculate_tokens(messages) == chars(messages) \div 4

-----------------------------------------------------------------------------
(* The snapshot store: the directory memory/ and its files.                *)

RECURSIVE json_escape_backslash(_)
\* mutant: the backslash is written as it is
json_escape_backslash(s) ==
    IF s = << >> THEN << >>
    ELSE LET c == Head(s)
             e == CASE c = "\"" -> << "\\", "\"" >>
                    [] c = "\n" -> << "\\", "n" >>
                    [] OTHER -> << c >>
         IN  e \o json_escape_backslash(Tail(s))

\* json.dump(..., ensure_ascii=False) of a str: the JSON string escapes
RECURSIVE json_escape(_)
json_escape(s) ==
    IF s = << >> THEN << >>
    ELSE LET c == Head(s)
             e == CASE c = "\"" -> << "\\", "\"" >>
                    [] c = "\\" -> << "\\", "\\" >>
                    [] c = "\n" -> << "\\", "n" >>
                    [] OTHER -> << c >>
         IN  e \o json_escape(Tail(s))

\* json.load of a JSON string: a backslash reads the character after it
RECURSIVE json_unescape(_)
json_unescape(s) ==
    IF s = << >> THEN << >>
    ELSE IF Head(s) = "\\" /\ Len(s) >= 2
    THEN << IF s[2] = "n" THEN "\n" ELSE s[2] >> \o json_unescape(Tail(Tail(s)))
    ELSE << Head(s) >> \o json_unescape(Tail(s))

json_dump_turn(msg) == [ role |-> msg.role, content |-> json_escape(msg.content) ]

json_load_turn(j) == [ role |-> j.role, content |-> json_unescape(j.content) ]

\* datetime.now().strftime("%Y%m%d_%H%M%S"); t in half seconds, DATE_ is
\* the day's "%Y%m%d_"
Pad2(n) == << Digits[(n \div 10) + 1], Digits[(n % 10) + 1] >>

strftime(t) ==
    LET sec == t \div 2
    IN  << "DATE_" >> \o Pad2((sec \div 3600) % 24) \o Pad2((sec \div 60) % 60)
                      \o Pad2(sec % 60)

\* datetime.now().isoformat()
isoformat(t) == strftime(t) \o << ".", Digits[(5 * (t % 2)) + 1] >>

\* the optional argument filename=None
None == << >>

\* lines 93-95: the name of the record
save_filename(filename, t) ==
    IF filename = None THEN << "context_" >> \o strftime(t) \o << ".json" >>
    ELSE filename

(* A file of memory/ is a record of what open, f.read() and json.load make
   of it: its bytes are UTF-8 (utf8); its text opens more brackets, one
   inside the other, than the interpreter's recursion limit allows (deep);
   its text is JSON (json), a JSON object (object) with the keys keys; the
   value under conversation_history is null (history_null) or the list
   conversation_history. *)

\* mutant: the first turn is left out of the record
context_data_tail(history, t) ==
    [ utf8 |-> TRUE, deep |-> FALSE, json |-> TRUE, object |-> TRUE,
      keys |-> { "timestamp", "messages_count", "conversation_history" },
      timestamp |-> isoformat(t),
      messages_count |-> Len(history),
      history_null |-> FALSE,
      conversation_history |->
          IF history = << >> THEN << >>
          ELSE [ k \in 1..(Len(history) - 1) |-> json_dump_turn(history[k + 1]) ] ]

\* mutant: the count is the number of user turns
context_data_users(history, t) ==
    [ utf8 |-> TRUE, deep |-> FALSE, json |-> TRUE, object |-> TRUE,
      keys |-> { "timestamp", "messages_count", "conversation_history" },
      timestamp |-> isoformat(t),
      messages_count |-> Len(SelectSeq(history, LAMBDA m : m.role = "user")),
      history_null |-> FALSE,
      conversation_history |-> [ k \in 1..Len(history) |-> json_dump_turn(history[k]) ] ]

\* lines 104-111: the text json.dump writes; t is the clock as line 105
\* reads it
context_data(history, t) ==
    [ utf8 |-> TRUE, deep |-> FALSE, json |-> TRUE, object |-> TRUE,
      keys |-> { "timestamp", "messages_count", "conversation_history" },
      timestamp |-> isoformat(t),
      messages_count |-> Len(history),
      history_null |-> FALSE,
      conversation_history |-> [ k \in 1..Len(history) |-> json_dump_turn(history[k]) ] ]

\* mutant: the directory is emptied before the record is written
save_context_to_json_wipe(history, filename, t, stamped, fs) ==
    LET name == save_filename(filename, t)
    IN  [ memory_dir |-> TRUE,
          files      |-> [ f \in { name } |-> context_data(history, stamped) ],
          filepath   |-> << "memory/" >> \o name ]

\* save_context_to_json: the directory and the files after the call, and the
\* path it returns.  The clock is read twice: t at line 94, for the derived
\* name, and stamped at line 105, for the timestamp of the record; time
\* may pass between the two.
save_context_to_json(history, filename, t, stamped, fs) ==
    LET name == save_filename(filename, t)
    IN  [ memory_dir |-> TRUE,
          files      |-> [ f \in (DOMAIN fs) \cup { name } |->
                             IF f = name THEN context_data(history, stamped)
                             ELSE fs[f] ],
          filepath   |-> << "memory/" >> \o name ]

\* the file a path names: memory/<name> for a name of the directory
path_exists(filepath, fs) ==
    /\ filepath # << >>
    /\ Head(filepath) = "memory/"
    /\ Tail(filepath) \in DOMAIN fs

\* the exception the try block of load_context_from_json runs into (lines
\* 118-121), "" when none: open, json.load (f.read() decodes the bytes as
\* UTF-8, then the text is parsed: the parser raises RecursionError when
\* the nesting exceeds the recursion limit, before it reaches the end of
\* the text), context_data.get
load_raises(filepath, fs) ==
    IF ~path_exists(filepath, fs) THEN "FileNotFoundError"
    ELSE IF ~fs[Tail(filepath)].utf8 THEN "UnicodeDecodeError"
    ELSE IF fs[Tail(filepath)].deep THEN "RecursionError"
    ELSE IF ~fs[Tail(filepath)].json THEN "JSONDecodeError"
    ELSE IF ~fs[Tail(filepath)].object THEN "AttributeError"
    ELSE ""

\* mutant: no "except json.JSONDecodeError" clause
load_except_notfound(exc) ==
    CASE exc = "FileNotFoundError" -> "not found"
      [] OTHER -> ""

\* the except clauses of lines 122-127: the message printed for an
\* exception they catch, "" for one they do not catch
load_except(exc) ==
    CASE exc = "FileNotFoundError" -> "not found"
      [] exc = "JSONDecodeError" -> "JSON read error"
      [] OTHER -> ""

\* load_context_from_json: tag "list" with the turns, tag "None" with the
\* message printed, or tag "raise" with the exception that leaves the call.
\* context_data.get('conversation_history', []) is the empty list when the
\* key is absent and None, with no message, when its value is null.
load_context_from_json(filepath, fs) ==
    LET exc == load_raises(filepath, fs) IN
    IF exc # "" /\ load_except(exc) # ""
    THEN [ tag |-> "None", value |-> << >>, exc |-> "", printed |-> load_except(exc) ]
    ELSE IF exc # ""
    THEN [ tag |-> "raise", value |-> << >>, exc |-> exc, printed |-> "" ]
    ELSE LET d == fs[Tail(filepath)] IN
         IF "conversation_history" \notin d.keys
         THEN [ tag |-> "list", value |-> << >>, exc |-> "", printed |-> "" ]
         ELSE IF d.history_null
         THEN [ tag |-> "None", value |-> << >>, exc |-> "", printed |-> "" ]
         ELSE [ tag |-> "list",
                value |-> [ k \in 1..Len(d.conversation_history) |->
                              json_load_turn(d.conversation_history[k]) ],
                exc |-> "", printed |-> "" ]

\* the code point of the first character of a piece of a file name or of
\* a path (0 for the pieces that are part of neither)
Ord(p) ==
    CASE p = "." \/ p = ".json" \/ p = ".txt" -> 46
      [] p \in { Digits[k] : k \in 1..10 } ->
            47 + (CHOOSE k \in 1..10 : Digits[k] = p)
      [] p = "DATE_" -> 50
      [] p = "_" -> 95
      [] p = "a" -> 97
      [] p = "b" -> 98
      [] p = "context_" -> 99
      [] p = "d" -> 100
      [] p = "e" -> 101
      [] p = "memory/" -> 109
      [] p = "n" -> 110
      [] p = "u" -> 117
      [] p = "x" -> 120
      [] p = "z" -> 122
      [] OTHER -> 0

RECURSIVE StrLess(_, _)
\* a < b on Python str
StrLess(a, b) ==
    IF b = << >> THEN FALSE
    ELSE IF a = << >> THEN TRUE
    ELSE IF Head(a) = Head(b) THEN StrLess(Tail(a), Tail(b))
    ELSE Ord(Head(a)) < Ord(Head(b))

RECURSIVE sort_reverse(_)
\* files.sort(reverse=True) of a set of distinct names
sort_reverse(S) ==
    IF S = {} THEN << >>
    ELSE LET m == CHOOSE x \in S : \A y \in S \ {x} : StrLess(y, x)
         IN  << m >> \o sort_reverse(S \ {m})

\* mutant: only the names save derives are listed
endswith_json_context(f) ==
    f # << >> /\ f[Len(f)] = ".json" /\ f[1] = "context_"

endswith_json(f) == f # << >> /\ f[Len(f)] = ".json"

list_saved_contexts(dir, fs) ==
    IF ~dir THEN << >>
    ELSE sort_reverse({ f \in DOMAIN fs : endswith_json(f) })

-----------------------------------------------------------------------------
(* main(): one process run after another over the same memory/ directory.  *)

\* what the completion service answers during a run: a completion, or a
\* transport failure
Reply == << "\\", "n", "\"" >>

SessionResponses ==
    { GoodResponse(Reply, FullUsage),
      [ GoodResponse(<< >>, NoCounters) EXCEPT
          !.transport = "Max retries exceeded (Name or service not known)" ] }

\* the operator's answer to "Ваш выбор:"; 0 stands for Enter or a non-number
\* the operator's answer to the prompt of line 156: input() raises
\* EOFError when standard input is closed; a text of characters that
\* str.isdigit() accepts and int() rejects (a superscript two, a circled
\* one) raises ValueError at line 158; a number n; any other text, the
\* empty one included, is 0
EndOfInput == -2

NotAnInt == -1

Choices == { EndOfInput, NotAnInt } \cup 0..(MaxRuns + 1)

\* the exception lines 156-158 raise for an answer, "" when none
choice_raises(choice) ==
    CASE choice = EndOfInput -> "EOFError"
      [] choice = NotAnInt -> "ValueError"
      [] OTHER -> ""

NoFiles == [ f \in {} |-> 0 ]

NoResult == [ tag |-> "", value |-> << >>, exc |-> "", printed |-> "" ]

NoCall == [ raised |-> "", is_str |-> TRUE, text |-> << >>, usage |-> ZeroUsage ]

\* the observation a step leaves: the step (op), the history before it, the
\* request sent and the result of its completion call, the outcome of a
\* load, the exception the operator's answer raised (answer), the token
\* estimates of a compaction; and, for the run so far, the
\* file selected at the start and how it stood when it was opened (restore:
\* "ok", "missing", "unparseable", "" when none was selected), the
\* completion calls made, the user turns appended, the compactions done,
\* the saves since the last compaction, and whether the history descends
\* from a compaction (done in this run or restored from its snapshot)
NoObs ==
    [ op |-> "", before |-> << >>, request |-> << >>, call |-> NoCall,
      failed |-> FALSE, load |-> NoResult, answer |-> "",
      selected |-> << >>, restore |-> "",
      tokens_before |-> 0, tokens_after |-> 0,
      calls |-> 0, users |-> 0, compactions |-> 0, saves |-> 0,
      compacted |-> FALSE ]

Init ==
    /\ memory_dir = FALSE
    /\ files = NoFiles
    /\ now = 0
    /\ pc = "idle"
    /\ runs = 0
    /\ conversation_history = << >>
    /\ qi = 0
    /\ total_tokens_without_compression = 0
    /\ total_tokens_with_compression = 0
    /\ saved_filepath = << >>
    /\ obs = NoObs
    /\ arg = << >>
    /\ ret = << >>

Min(a, b) == IF a < b THEN a ELSE b

\* mutant: a snapshot is taken over only when it holds more than one turn
resume_history_long(loaded) ==
    IF loaded.tag = "list" /\ Len(loaded.value) > 1 THEN loaded.value ELSE << >>

\* lines 165-166 and 199-200: the history the run starts with, the loaded
\* turns if "if loaded_context:" holds, else the empty list
resume_history(loaded) ==
    IF loaded.tag = "list" /\ loaded.value # << >> THEN loaded.value ELSE << >>

\* where main() stands after lines 145-200: an exception raised by the
\* answer or one that leaves load_context_from_json ends it, anything else
\* leads to the dialogue
start_position(raised, loaded) ==
    IF raised # "" \/ loaded.tag = "raise" THEN "crashed" ELSE "phase1"

\* lines 145-200: list the snapshots, ask which one to load, load it.
\* gone: the selected file is removed from memory/ while the prompt waits
\* for the operator's answer, after os.listdir and before open.  The
\* prompt is shown only when there are snapshots.
StartRun(choice, gone) ==
    /\ pc \in { "idle", "done", "crashed", "killed" }
    /\ runs < MaxRuns
    /\ LET saved_contexts == list_saved_contexts(memory_dir, files)
           selected == saved_contexts # << >> /\ 1 <= choice
                       /\ choice <= Min(5, Len(saved_contexts))
           selected_file == IF selected THEN saved_contexts[choice] ELSE << >>
           left == IF selected /\ gone
                   THEN [ f \in (DOMAIN files) \ { selected_file } |-> files[f] ]
                   ELSE files
           loaded == IF selected
                     THEN load_context_from_json(
                              << "memory/" >> \o selected_file, left)
                     ELSE NoResult
           raised == IF saved_contexts # << >> THEN choice_raises(choice) ELSE ""
       IN  /\ saved_contexts = << >> => choice = 0
           /\ gone => selected
           /\ files' = left
           /\ conversation_history' = resume_history(loaded)
           /\ pc' = start_position(raised, loaded)
           /\ obs' = [ NoObs EXCEPT
                         !.op = "start", !.load = loaded, !.answer = raised,
                         !.before = conversation_history,
                         !.selected = selected_file,
                         !.restore =
                             IF ~selected THEN ""
                             ELSE IF gone THEN "missing"
                             ELSE IF ~files[selected_file].json THEN "unparseable"
                             ELSE "ok",
                         !.compacted = (resume_history(loaded) # << >>) ]
    /\ runs' = runs + 1
    /\ qi' = 0
    /\ total_tokens_without_compression' = 0
    /\ total_tokens_with_compression' = 0
    /\ saved_filepath' = << >>
    /\ UNCHANGED << memory_dir, now, arg, ret >>

\* test_questions[:6] and test_questions[6:] (lines 207, 272): the number of
\* questions asked before the compaction
Threshold == 6

\* mutant: the first loop runs over test_questions[:5]
after_exchange_early(phase, asked) ==
    IF phase = "phase1"
    THEN IF asked < 5 THEN "phase1" ELSE "phase2"
    ELSE IF asked < 8 THEN "phase3" ELSE "report"

\* where main() stands after the pass that asked question number asked
after_exchange(phase, asked) ==
    IF phase = "phase1"
    THEN IF asked < Threshold THEN "phase1" ELSE "phase2"
    ELSE IF asked < Len(test_questions) THEN "phase3" ELSE "report"

\* mutant: create_conversation_summary calls a second time after an error
calls_made_retry(step, r) ==
    IF step = "compact" /\ r.text # << >> /\ Head(r.text) = "Error: " THEN 2 ELSE 1

\* the calls of call_deepseek_api a step makes to get the result r: line 212
\* or 277 in an exchange, line 83 in a compaction
calls_made(step, r) == 1

\* mutant: a failed exchange is taken back, its user turn removed
after_call_skip(request, r) ==
    IF r.text # << >> /\ Head(r.text) = "Error: "
    THEN SubSeq(request, 1, Len(request) - 1)
    ELSE Append(request, [ role |-> "assistant", content |-> r.text ])

\* lines 212-214: the history after the call r made with request
after_call(request, r) ==
    IF r.raised = "" THEN Append(request, Turn("assistant", r.text))
    ELSE request

\* one pass of the loops of lines 207-221 and 272-286: append the question,
\* call the service with the whole history, append the answer, add the
\* tokens, print response[:100], sleep half a second
Exchange(resp, phase) ==
    LET question == test_questions[qi + 1]
        request  == Append(conversation_history, Turn("user", question))
        r        == call_deepseek_api(request, resp)
        answered == r.raised = ""
    IN  /\ conversation_history' = after_call(request, r)
        /\ pc' = IF ~answered \/ ~r.is_str THEN "crashed"
                 ELSE after_exchange(phase, qi + 1)
        /\ qi' = qi + 1
        /\ total_tokens_without_compression' =
              IF answered /\ phase = "phase1"
              THEN total_tokens_without_compression + r.usage.total_tokens
              ELSE total_tokens_without_compression
        /\ total_tokens_with_compression' =
              IF answered /\ phase = "phase3"
              THEN total_tokens_with_compression + r.usage.total_tokens
              ELSE total_tokens_with_compression
        /\ now' = IF answered /\ r.is_str THEN now + 1 ELSE now
        /\ obs' = [ obs EXCEPT !.op = "exchange", !.before = conversation_history,
                               !.request = request, !.call = r,
                               !.failed = RaisedIn(resp) # "",
                               !.calls = @ + calls_made("exchange", r),
                               !.users = @ + 1 ]
        /\ UNCHANGED << memory_dir, files, runs, saved_filepath, arg, ret >>

Phase1(resp) == pc = "phase1" /\ qi < Threshold /\ Exchange(resp, "phase1")

Phase3(resp) ==
    pc = "phase3" /\ qi < Len(test_questions) /\ Exchange(resp, "phase3")

\* mutant: the heading counts the user turns
summary_turn_users(messages_to_summarize, summary) ==
    [ role |-> "system",
      content |-> << "SUMMARY_HEAD" >>
                    \o Str(Len(SelectSeq(messages_to_summarize,
                                         LAMBDA m : m.role = "user")))
                    \o << " messages):", "\n" >> \o summary ]

\* mutant: an error text is not taken as the summary
summary_turn_drop(messages_to_summarize, summary) ==
    [ role |-> "system",
      content |-> << "SUMMARY_HEAD" >> \o Str(Len(messages_to_summarize))
                    \o << " messages):", "\n" >>
                    \o (IF summary # << >> /\ Head(summary) = "Error: "
                        THEN << >> ELSE summary) ]

\* mutant: the heading counts the turns that are rendered in the transcript
summary_turn_spoken(messages_to_summarize, summary) ==
    [ role |-> "system",
      content |-> << "SUMMARY_HEAD" >>
                    \o Str(Len(SelectSeq(messages_to_summarize,
                                         LAMBDA m : m.role # "system")))
                    \o << " messages):", "\n" >> \o summary ]

\* the system turn of lines 245-250
summary_turn(messages_to_summarize, summary) ==
    Turn("system", << "SUMMARY_HEAD" >> \o Str(Len(messages_to_summarize))
                     \o << " messages):", "\n" >> \o summary)

\* mutant: the summary turn is appended to the history
compacted_history_append(messages_to_summarize, summary) ==
    Append(messages_to_summarize,
           summary_turn(messages_to_summarize, summary))

\* mutant: the summary turn is put before the history
compacted_history_prepend(messages_to_summarize, summary) ==
    << summary_turn(messages_to_summarize, summary) >> \o messages_to_summarize

\* mutant: the system turns of the history are kept before the summary turn
compacted_history_keep(messages_to_summarize, summary) ==
    SelectSeq(messages_to_summarize, LAMBDA m : m.role = "system")
        \o << summary_turn(messages_to_summarize, summary) >>

\* what lines 245-250 leave as the history
compacted_history(messages_to_summarize, summary) ==
    << summary_turn(messages_to_summarize, summary) >>

\* mutant: a history without user turns is left as it is
compaction_step_guarded(history, resp) ==
    LET users == Len(SelectSeq(history, LAMBDA m : m.role = "user"))
        r == create_conversation_summary(history, resp)
    IN  IF users > 0 /\ r.raised = "" /\ r.is_str
        THEN compacted_history(history, r.text)
        ELSE history

\* lines 236-250 as a step on a history: summarize it and replace it by
\* the summary turn.  There is no condition on the step: it does this to
\* whatever history it is given.  summary[:200] at line 242 raises when the
\* service answered without a text, and then the history is as it was.
compaction_step(history, resp) ==
    LET r == create_conversation_summary(history, resp)
    IN  IF r.raised = "" /\ r.is_str
        THEN compacted_history(history, r.text)
        ELSE history

\* lines 236-260: summarize the history, replace it by the summary turn,
\* report the saving (a division by tokens_before)
Phase2(resp) ==
    /\ pc = "phase2"
    /\ LET messages_to_summarize == conversation_history
           tokens_before == calculate_tokens(messages_to_summarize)
           r == create_conversation_summary(messages_to_summarize, resp)
           replaced == r.raised = "" /\ r.is_str
           after == compaction_step(messages_to_summarize, resp)
           tokens_after == calculate_tokens(after)
       IN  /\ conversation_history' = after
           /\ pc' = IF ~replaced \/ tokens_before = 0 THEN "crashed" ELSE "save"
           /\ obs' = [ obs EXCEPT !.op = "compact", !.before = conversation_history,
                                  !.request = summary_messages(messages_to_summarize),
                                  !.call = r, !.failed = RaisedIn(resp) # "",
                                  !.tokens_before = tokens_before,
                                  !.tokens_after = tokens_after,
                                  !.calls = @ + calls_made("compact", r),
                                  !.compactions = IF replaced THEN @ + 1 ELSE @,
                                  !.saves = IF replaced THEN 0 ELSE @,
                                  !.compacted = @ \/ replaced ]
    /\ UNCHANGED << memory_dir, files, now, runs, qi,
                    total_tokens_without_compression,
                    total_tokens_with_compression, saved_filepath, arg, ret >>

\* the time that may pass between the two readings of the clock in
\* save_context_to_json (lines 94 and 105), in half seconds
Elapsed == { 0, 1 }

\* line 264
Save(elapsed) ==
    /\ pc = "save"
    /\ LET w == save_context_to_json(conversation_history, None, now,
                                     now + elapsed, files)
       IN  /\ memory_dir' = w.memory_dir
           /\ files' = w.files
           /\ saved_filepath' = w.filepath
    /\ now' = now + elapsed
    /\ pc' = "phase3"
    /\ obs' = [ obs EXCEPT !.op = "save", !.before = conversation_history,
                           !.saves = @ + 1 ]
    /\ UNCHANGED << runs, conversation_history, qi,
                    total_tokens_without_compression,
                    total_tokens_with_compression, arg, ret >>

\* the process is killed while json.dump writes (line 111): open(.., 'w')
\* has truncated the file and only a prefix of its bytes is on disk.  The
\* text is written with ensure_ascii=False and holds Cyrillic letters of
\* two bytes each: the prefix ends between two characters (whole) or
\* inside one, and then the file is not UTF-8.
KillDuringSave(whole, elapsed) ==
    /\ pc = "save"
    /\ LET w == save_context_to_json(conversation_history, None, now,
                                     now + elapsed, files)
           name == Tail(w.filepath)
       IN  /\ memory_dir' = w.memory_dir
           /\ files' = [ w.files EXCEPT ![name].json = FALSE,
                                        ![name].utf8 = whole ]
    /\ now' = now + elapsed
    /\ pc' = "killed"
    /\ obs' = [ obs EXCEPT !.op = "kill", !.before = conversation_history ]
    /\ UNCHANGED << runs, conversation_history, qi,
                    total_tokens_without_compression,
                    total_tokens_with_compression, saved_filepath, arg, ret >>

\* lines 303-306: the final saving, a division by
\* total_tokens_without_compression
Report ==
    /\ pc = "report"
    /\ pc' = IF total_tokens_with_compression > 0
                /\ total_tokens_without_compression = 0
             THEN "crashed" ELSE "done"
    /\ obs' = [ obs EXCEPT !.op = "report", !.before = conversation_history ]
    /\ UNCHANGED << memory_dir, files, now, runs, conversation_history, qi,
                    total_tokens_without_compression,
                    total_tokens_with_compression, saved_filepath, arg, ret >>

Next ==
    \/ \E choice \in Choices, gone \in BOOLEAN : StartRun(choice, gone)
    \/ \E resp \in SessionResponses : Phase1(resp)
    \/ \E resp \in SessionResponses : Phase2(resp)
    \/ \E elapsed \in Elapsed : Save(elapsed)
    \/ \E whole \in BOOLEAN, elapsed \in Elapsed : KillDuringSave(whole, elapsed)
    \/ \E resp \in SessionResponses : Phase3(resp)
    \/ Report

Spec == Init /\ [][Next]_vars

-----------------------------------------------------------------------------
(* Direct calls of the functions, on inputs drawn from bounded sets.       *)

\* turns of each role; the contents have the characters JSON escapes
\* (a backslash before an n, a quote, a newline) and the empty content
Turns == { Turn("user", << "\\", "n" >>), Turn("assistant", << "\"", "\n" >>),
           Turn("system", << "a" >>), Turn("user", << >>) }

RECURSIVE SeqsUpTo(_, _)
\* the sequences over S of length at most n
SeqsUpTo(S, n) ==
    IF n = 0 THEN { << >> }
    ELSE LET shorter == SeqsUpTo(S, n - 1)
         IN  shorter \cup { Append(q, x) : q \in shorter, x \in S }

Histories == SeqsUpTo(Turns, MaxTurns)

\* the message lists passed to the functions of lines 28-89
Messages == SeqsUpTo(Turns, MaxMessages)

\* the answers of the service, one for each way a step of the call can go
Responses ==
    LET ok == GoodResponse(Reply, FullUsage) IN
    { ok,
      [ ok EXCEPT !.text = << >> ],
      [ ok EXCEPT !.usage = "missing" ],
      [ ok EXCEPT !.counters = [ k \in { "total_tokens" } |-> 10 ] ],
      [ ok EXCEPT !.transport = "Max retries exceeded (Name or service not known)" ],
      [ ok EXCEPT !.transport = "Max retries exceeded (Connection refused)" ],
      [ ok EXCEPT !.status = 401 ],
      [ ok EXCEPT !.status = 500 ],
      [ ok EXCEPT !.json = FALSE ],
      [ ok EXCEPT !.object = FALSE ],
      [ ok EXCEPT !.choices = -1 ],
      [ ok EXCEPT !.choices = 0 ],
      [ ok EXCEPT !.message = FALSE ],
      [ ok EXCEPT !.content = "missing" ],
      [ ok EXCEPT !.content = "null" ],
      [ ok EXCEPT !.usage = "null" ] }

InitCalls ==
    /\ pc = "call"
    /\ runs = 0
    /\ conversation_history = << >>
    /\ qi = 0
    /\ total_tokens_without_compression = 0
    /\ total_tokens_with_compression = 0
    /\ saved_filepath = << >>
    /\ obs = NoObs

\* what a call leaves: its name, its result, the request it sent; for the
\* compaction step the history it was given and the one it left, and how
\* many times it has been applied
NoApiRet ==
    [ op |-> "", result |-> NoCall, tokens |-> 0, request |-> << >>,
      before |-> << >>, history |-> << >>, applied |-> 0 ]

InitApi ==
    /\ InitCalls
    /\ memory_dir = FALSE
    /\ files = NoFiles
    /\ now = 0
    /\ arg \in [ messages : Messages, resp : Responses ]
    /\ ret = NoApiRet

UnchangedMain ==
    UNCHANGED << pc, runs, conversation_history, qi,
                 total_tokens_without_compression,
                 total_tokens_with_compression, saved_filepath, obs >>

ApiCall ==
    /\ pc = "call"
    /\ ret.op = ""
    /\ ret' = [ NoApiRet EXCEPT
                  !.op = "call_deepseek_api",
                  !.result = call_deepseek_api(arg.messages, arg.resp),
                  !.request = arg.messages ]
    /\ UNCHANGED << memory_dir, files, now, arg >>
    /\ UnchangedMain

TokensCall ==
    /\ pc = "call"
    /\ ret.op = ""
    /\ ret' = [ NoApiRet EXCEPT
                  !.op = "calculate_tokens",
                  !.tokens = calculate_tokens(arg.messages) ]
    /\ UNCHANGED << memory_dir, files, now, arg >>
    /\ UnchangedMain

\* create_conversation_summary(messages): the request it builds and what
\* its call returns
SummaryCall ==
    /\ pc = "call"
    /\ ret.op = ""
    /\ ret' = [ NoApiRet EXCEPT
                  !.op = "create_conversation_summary",
                  !.result = create_conversation_summary(arg.messages, arg.resp),
                  !.request = summary_messages(arg.messages) ]
    /\ UNCHANGED << memory_dir, files, now, arg >>
    /\ UnchangedMain

\* the compaction step of main() (lines 236-250) applied to a history:
\* first to arg.messages with the answer arg.resp, then once more to the
\* history it left, with nothing appended in between; resp is what the
\* service answers to the second request
CompactionStep(resp) ==
    /\ pc = "call"
    /\ ret.op \in { "", "compaction" }
    /\ ret.applied < 2
    /\ ret.applied = 0 => resp = arg.resp
    /\ LET history == IF ret.applied = 0 THEN arg.messages ELSE ret.history
       IN  ret' = [ NoApiRet EXCEPT
                      !.op = "compaction",
                      !.result = create_conversation_summary(history, resp),
                      !.request = summary_messages(history),
                      !.before = history,
                      !.history = compaction_step(history, resp),
                      !.applied = ret.applied + 1 ]
    /\ UNCHANGED << memory_dir, files, now, arg >>
    /\ UnchangedMain

NextApi ==
    \/ ApiCall
    \/ TokensCall
    \/ SummaryCall
    \/ \E resp \in Responses : CompactionStep(resp)

SpecApi == InitApi /\ [][NextApi]_vars

\* files of memory/ that no save wrote: text that is not JSON (a), a JSON
\* list (b), a JSON object without the key conversation_history (z), bytes
\* that are not UTF-8 (u), brackets nested beyond the recursion limit (d),
\* a JSON object whose conversation_history is null (e), and a snapshot
\* whose name does not end in .json
ForeignFile(is_utf8, is_deep, is_json, is_object, keys, is_null) ==
    [ utf8 |-> is_utf8, deep |-> is_deep, json |-> is_json,
      object |-> is_object, keys |-> keys,
      timestamp |-> << >>, messages_count |-> 0,
      history_null |-> is_null, conversation_history |-> << >> ]

ForeignNames == { << "a", ".json" >>, << "b", ".json" >>, << "z", ".json" >>,
                  << "u", ".json" >>, << "d", ".json" >>, << "e", ".json" >>,
                  << "a", ".txt" >> }

ForeignFiles ==
    [ f \in ForeignNames |->
        CASE f = << "a", ".json" >> ->
                ForeignFile(TRUE, FALSE, FALSE, FALSE, {}, FALSE)
          [] f = << "b", ".json" >> ->
                ForeignFile(TRUE, FALSE, TRUE, FALSE, {}, FALSE)
          [] f = << "z", ".json" >> ->
                ForeignFile(TRUE, FALSE, TRUE, TRUE, { "timestamp" }, FALSE)
          [] f = << "u", ".json" >> ->
                ForeignFile(FALSE, FALSE, FALSE, FALSE, {}, FALSE)
          [] f = << "d", ".json" >> ->
                ForeignFile(TRUE, TRUE, FALSE, FALSE, {}, FALSE)
          [] f = << "e", ".json" >> ->
                ForeignFile(TRUE, FALSE, TRUE, TRUE,
                            { "conversation_history" }, TRUE)
          [] OTHER ->
                ForeignFile(TRUE, FALSE, TRUE, TRUE,
                            { "conversation_history" }, FALSE) ]

NoRet == [ op |-> "", path |-> << >>, result |-> NoResult, listing |-> << >>,
           round_trip |-> FALSE, filename |-> << >> ]

InitStore ==
    /\ InitCalls
    /\ memory_dir \in BOOLEAN
    /\ files \in IF memory_dir THEN { NoFiles, ForeignFiles } ELSE { NoFiles }
    /\ now = 0
    /\ arg \in [ history : Histories ]
    /\ ret = NoRet

\* time passes
Tick ==
    /\ pc = "call"
    /\ now < MaxClock
    /\ now' = now + 1
    /\ UNCHANGED << memory_dir, files, arg, ret >>
    /\ UnchangedMain

\* the names a caller passes to save_context_to_json
SaveNames == { None, << "b", ".json" >>, << "n", ".txt" >> }

\* save_context_to_json(arg.history, filename); elapsed is the time that
\* passes between its two readings of the clock
SaveCall(filename, elapsed) ==
    /\ pc = "call"
    /\ now + elapsed <= MaxClock
    /\ LET w == save_context_to_json(arg.history, filename, now,
                                     now + elapsed, files)
       IN  /\ memory_dir' = w.memory_dir
           /\ files' = w.files
           /\ ret' = [ NoRet EXCEPT !.op = "save", !.path = w.filepath,
                                    !.filename = filename ]
    /\ now' = now + elapsed
    /\ UNCHANGED arg
    /\ UnchangedMain

\* the paths a caller passes to load_context_from_json: the files of
\* memory/, a path that names no file, the path the last call returned
LoadPaths ==
    { << "memory/" >> \o f : f \in DOMAIN files }
        \cup { << "memory/", "x", ".json" >> }
        \cup (IF ret.op = "save" THEN { ret.path } ELSE {})

LoadCall(filepath) ==
    /\ pc = "call"
    /\ ret' = [ NoRet EXCEPT !.op = "load", !.path = filepath,
                             !.result = load_context_from_json(filepath, files),
                             !.round_trip = (ret.op = "save" /\ ret.path = filepath) ]
    /\ UNCHANGED << memory_dir, files, now, arg >>
    /\ UnchangedMain

ListCall ==
    /\ pc = "call"
    /\ ret' = [ NoRet EXCEPT !.op = "list",
                             !.listing = list_saved_contexts(memory_dir, files) ]
    /\ UNCHANGED << memory_dir, files, now, arg >>
    /\ UnchangedMain

NextStore ==
    \/ Tick
    \/ \E filename \in SaveNames, elapsed \in Elapsed : SaveCall(filename, elapsed)
    \/ \E filepath \in LoadPaths : LoadCall(filepath)
    \/ ListCall

SpecStore == InitStore /\ [][NextStore]_vars

-----------------------------------------------------------------------------
(* Properties *)

UserCount(history) == Len(SelectSeq(history, LAMBDA m : m.role = "user"))

StartsWithError(text) == text # << >> /\ Head(text) = "Error: "

\* C1 (SpecStore): a load of the path that the save just before it returned
\* yields exactly the saved turn sequence, the empty one included: same
\* roles, same contents, same order.
C1_RoundTrip ==
    (ret.op = "load" /\ ret.round_trip)
        => (ret.result.tag = "list" /\ ret.result.value = arg.history)

C1_Witness ==
    /\ ret.op = "load" /\ ret.round_trip
    /\ Len(arg.history) = 2
    /\ arg.history[1].content = << "\\", "n" >>
    /\ arg.history[2].content = << "\"", "\n" >>
    /\ ret.result.value = arg.history

\* C2 (Spec): after an exchange, main() goes on to the compaction if and
\* only if the history then holds a positive multiple of 6 user turns; and
\* every compaction starts from such a history.  Runs start empty or from a
\* snapshot an earlier run wrote.
C2_TriggerLaw ==
    LET fires(history) == UserCount(history) > 0 /\ UserCount(history) % 6 = 0
    IN  /\ (obs.op = "exchange" /\ pc # "crashed")
              => (pc = "phase2" <=> fires(conversation_history))
        /\ pc = "phase2" => fires(conversation_history)
        /\ obs.op = "compact" => fires(obs.before)

C2_Witness ==
    /\ obs.op = "compact"
    /\ obs.compacted /\ Len(obs.before) = 13
    /\ UserCount(obs.before) = 6

\* C3 (Spec): right after a compaction the history is exactly one turn, of
\* role system, whatever the history was and whatever text the
\* summarization call returned.
C3_PostCompaction ==
    obs.op = "compact"
        => (Len(conversation_history) = 1
            /\ conversation_history[1].role = "system")

C3_Witness ==
    /\ obs.op = "compact"
    /\ obs.failed
    /\ Len(obs.before) = 13
    /\ Len(conversation_history) = 1

\* C4 (Spec): once a compaction has happened, in this run or in the run
\* whose snapshot this run restored, the history has exactly one system
\* turn, it is the first turn, and the turns after it are the user and
\* assistant turns appended since, a user turn and its answer for each
\* exchange.
C4_OneSummaryFirst ==
    obs.compacted =>
        /\ conversation_history # << >>
        /\ conversation_history[1].role = "system"
        /\ \A k \in 2..Len(conversation_history) :
              conversation_history[k].role =
                  (IF k % 2 = 0 THEN "user" ELSE "assistant")
        /\ (pc # "crashed" => Len(conversation_history) % 2 = 1)

C4_Witness ==
    /\ obs.compacted
    /\ runs = 2
    /\ obs.op = "exchange"
    /\ obs.compactions = 1
    /\ Len(conversation_history) = 5

\* C5 (Spec): after a compaction nothing but the save comes next; the save
\* is the only one since the compaction and the record it wrote reads back
\* as the post-compaction history, the single system turn; and a user turn
\* is appended after a compaction only when that one save has been made.
C5_SaveFollowsCompaction ==
    /\ (obs.op = "compact" => pc = "save")
    /\ (obs.op = "save" =>
          /\ obs.saves = 1
          /\ Len(conversation_history) = 1
          /\ conversation_history[1].role = "system"
          /\ load_context_from_json(saved_filepath, files) =
                [ tag |-> "list", value |-> conversation_history,
                  exc |-> "", printed |-> "" ])
    /\ ((obs.op = "exchange" /\ obs.compactions > 0) =>
          /\ obs.saves = 1
          /\ load_context_from_json(saved_filepath, files).value
                = << conversation_history[1] >>)

C5_Witness ==
    /\ obs.op = "exchange" /\ obs.compactions = 1 /\ obs.saves = 1
    /\ qi = 7
    /\ runs = 2
    /\ Len(files[Tail(saved_filepath)].conversation_history) = 1

\* the ways the call fails: transport, HTTP status (authentication is the
\* status 401), a body that is not JSON, JSON that lacks the completion
Failure(resp) ==
    \/ resp.transport # "ok"
    \/ resp.status >= 400
    \/ ~resp.json
    \/ ~resp.object
    \/ resp.choices < 1
    \/ ~resp.message
    \/ resp.content = "missing"
    \/ resp.usage = "null"

\* C6 (SpecApi): call_deepseek_api raises for no answer of the service, and
\* for every failure it returns a text that begins with "Error: " and a
\* usage record whose three counters are 0.
C6_NeverRaises ==
    ret.op = "call_deepseek_api" =>
        /\ ret.result.raised = ""
        /\ Failure(arg.resp) =>
              /\ ret.result.is_str
              /\ StartsWithError(ret.result.text)
              /\ ret.result.usage.total_tokens = 0
              /\ ret.result.usage.prompt_tokens = 0
              /\ ret.result.usage.completion_tokens = 0

C6_Witness ==
    /\ ret.op = "call_deepseek_api"
    /\ arg.resp.choices = -1
    /\ ret.result.text = << "Error: ", "'choices'" >>
    /\ ret.result.usage.total_tokens = 0

\* C7 (Spec): an exchange whose completion call fails still completes: the
\* history grows by the user turn with the question and then one assistant
\* turn whose content is the error text, nothing else changes in it, and
\* main() goes on to its next step.
C7_FailedExchangeCompletes ==
    (obs.op = "exchange" /\ obs.failed) =>
        /\ conversation_history =
              obs.before \o << Turn("user", test_questions[qi]),
                               Turn("assistant", obs.call.text) >>
        /\ StartsWithError(obs.call.text)
        /\ pc \in { "phase1", "phase2", "phase3", "report" }

C7_Witness ==
    /\ obs.op = "exchange" /\ obs.failed
    /\ qi = 3
    /\ Len(conversation_history) = 6
    /\ conversation_history[6].content =
          << "Error: ", "Max retries exceeded (Name or service not known)" >>
    /\ ~StartsWithError(conversation_history[4].content)

\* C8 (Spec): no pattern of failed completion calls ends main() in an
\* unhandled exception: once the restore is over, main() runs to its end.
C8_NoCrash == pc = "crashed" => obs.op = "start"

\* C9 (Spec): a compaction whose summarization call fails still commits:
\* the history becomes one system turn whose content is the counted heading
\* followed by the error text, main() goes on to the save, and the
\* compaction has made one completion call, the only one besides those of
\* the exchanges.
C9_ErrorSummaryCommits ==
    (obs.op = "compact" /\ obs.failed) =>
        /\ pc = "save"
        /\ StartsWithError(obs.call.text)
        /\ conversation_history =
              << Turn("system",
                      << "SUMMARY_HEAD" >> \o Str(Len(obs.before))
                          \o << " messages):", "\n" >> \o obs.call.text) >>
        /\ obs.compactions = 1
        /\ obs.calls = obs.users + 1

C9_Witness ==
    /\ obs.op = "compact" /\ obs.failed
    /\ pc = "save"
    /\ obs.calls = 7
    /\ conversation_history[1].content =
          << "SUMMARY_HEAD", "1", "2", " messages):", "\n",
             "Error: ", "Max retries exceeded (Name or service not known)" >>

\* the path of a load names no file (open raises FileNotFoundError)
PathMissing == ~path_exists(ret.path, files)

\* it names a file whose text is not JSON (json.load raises
\* json.JSONDecodeError)
PathCorrupt ==
    /\ path_exists(ret.path, files)
    /\ files[Tail(ret.path)].utf8
    /\ ~files[Tail(ret.path)].deep
    /\ ~files[Tail(ret.path)].json

\* it names a JSON object whose conversation_history is null
PathNullHistory ==
    /\ path_exists(ret.path, files)
    /\ files[Tail(ret.path)].utf8
    /\ ~files[Tail(ret.path)].deep
    /\ files[Tail(ret.path)].json
    /\ files[Tail(ret.path)].object
    /\ "conversation_history" \in files[Tail(ret.path)].keys
    /\ files[Tail(ret.path)].history_null

\* it names a file json.load cannot take in without one of the two
\* exceptions above: bytes that are not UTF-8, nesting beyond the recursion
\* limit, JSON that is not an object
PathUnreadable ==
    /\ path_exists(ret.path, files)
    /\ \/ ~files[Tail(ret.path)].utf8
       \/ files[Tail(ret.path)].deep
       \/ files[Tail(ret.path)].json /\ ~files[Tail(ret.path)].object

\* C10 as stated (SpecStore): a load fails with NotFound for a path that
\* names no record and with Corrupt for a record that is not well-formed,
\* two distinct error outcomes that reach the caller.  In the code NotFound
\* is FileNotFoundError, which open raises, and Corrupt is
\* json.JSONDecodeError, which json.load raises: as stated, each of the two
\* leaves the call and the caller can tell one from the other.
C10_DistinctErrors ==
    ret.op = "load" =>
        /\ PathMissing =>
              (ret.result.tag = "raise" /\ ret.result.exc = "FileNotFoundError")
        /\ PathCorrupt =>
              (ret.result.tag = "raise" /\ ret.result.exc = "JSONDecodeError")

\* C10 as amended (SpecStore): for a path that names no file and for a file
\* whose text is not JSON the load returns None, the same outcome for both
\* (the message it prints tells them apart), and raises nothing; a failed
\* load never yields turns.  None is returned in one more case, without a
\* message: a JSON object whose conversation_history is null.  Every other
\* exception leaves the call: UnicodeDecodeError for bytes that are not
\* UTF-8, RecursionError for nesting beyond the recursion limit,
\* AttributeError for JSON that is not an object.
C10_FailuresReturnNone ==
    ret.op = "load" =>
        /\ PathMissing => (ret.result.tag = "None" /\ ret.result.printed = "not found")
        /\ PathCorrupt =>
              (ret.result.tag = "None" /\ ret.result.printed = "JSON read error")
        /\ PathNullHistory => (ret.result.tag = "None" /\ ret.result.printed = "")
        /\ ret.result.tag = "None" => (PathMissing \/ PathCorrupt \/ PathNullHistory)
        /\ (PathMissing \/ PathCorrupt \/ PathNullHistory) =>
              (ret.result.value = << >> /\ ret.result.exc = "")
        /\ ret.result.tag = "raise" <=> PathUnreadable
        /\ PathUnreadable =>
              ret.result.exc =
                  IF ~files[Tail(ret.path)].utf8 THEN "UnicodeDecodeError"
                  ELSE IF files[Tail(ret.path)].deep THEN "RecursionError"
                  ELSE "AttributeError"

\* a load of a file that is there and whose text is not JSON has returned
\* None with the message of the JSONDecodeError clause
C10_Witness ==
    /\ ret.op = "load"
    /\ ret.path = << "memory/", "a", ".json" >>
    /\ PathCorrupt
    /\ ret.result.tag = "None"
    /\ ret.result.printed = "JSON read error"


\* the run did not take over a snapshot: none was selected or the load failed
FreshRun == obs.restore # "ok"

\* C11 (Spec): when the selected record is missing or cannot be parsed,
\* main() does not end: the load reports the failure (None, with its
\* message), the run starts with the empty history, and its exchanges build
\* the history a fresh session builds, question and answer in turn.
C11_RestoreFailureStartsEmpty ==
    obs.restore \in { "missing", "unparseable" } =>
        /\ obs.load.tag = "None" /\ obs.load.printed # ""
        /\ ~(obs.op = "start" /\ pc = "crashed")
        /\ obs.op = "start" =>
              (pc = "phase1" /\ conversation_history = << >> /\ ~obs.compacted)
        /\ pc \in { "phase1", "phase2" } =>
              /\ Len(conversation_history) = 2 * qi
              /\ \A k \in 1..qi :
                    /\ conversation_history[2 * k - 1] =
                          Turn("user", test_questions[k])
                    /\ conversation_history[2 * k].role = "assistant"

\* C12 (Spec): right after a successful resume, before any user turn is
\* appended, the history is the conversation_history of the selected
\* snapshot, turn for turn: the one system turn the record holds.
C12_ResumeIsSnapshot ==
    (obs.op = "start" /\ obs.restore = "ok") =>
        LET stored == files[obs.selected].conversation_history
        IN  /\ Len(stored) >= 1
            /\ Len(conversation_history) = Len(stored)
            /\ \A k \in 1..Len(stored) :
                  /\ conversation_history[k].role = stored[k].role
                  /\ json_escape(conversation_history[k].content)
                        = stored[k].content

C12_Witness ==
    /\ obs.op = "start" /\ obs.restore = "ok"
    /\ Len(conversation_history) = 1
    /\ conversation_history[1].role = "system"
    /\ conversation_history[1].content =
          << "SUMMARY_HEAD", "1", "2", " messages):", "\n", "\\", "n", "\"" >>

\* C17 as stated (Spec): in a fresh run the compaction after the 6 user
\* turns leaves one system turn whose content says "6 messages".
C17_SixMessages ==
    (obs.op = "compact" /\ FreshRun) =>
        /\ Len(conversation_history) = 1
        /\ conversation_history[1].role = "system"
        /\ SubSeq(conversation_history[1].content, 2, 3) = << "6", " messages):" >>

\* C17 as amended (Spec): in a fresh run the compaction after the 6 user
\* turns, each answered, leaves one system turn whose content says
\* "12 messages", the 6 user turns and the 6 assistant turns.
C17_TwelveMessages ==
    (obs.op = "compact" /\ FreshRun) =>
        /\ UserCount(obs.before) = 6
        /\ Len(conversation_history) = 1
        /\ conversation_history[1].role = "system"
        /\ SubSeq(conversation_history[1].content, 1, 4)
              = << "SUMMARY_HEAD", "1", "2", " messages):" >>

C17_Witness ==
    /\ obs.op = "compact" /\ FreshRun
    /\ ~obs.failed
    /\ conversation_history[1].content =
          << "SUMMARY_HEAD", "1", "2", " messages):", "\n", "\\", "n", "\"" >>

\* C18 (Spec): at every point of a run the completion calls made are the
\* user turns appended plus the compactions done: one call for each
\* exchange, one more for each compaction.
C18_CallAccounting ==
    /\ obs.calls = obs.users + obs.compactions
    /\ obs.users = qi
    /\ obs.compactions = (IF qi >= Threshold /\ pc # "phase2" THEN 1 ELSE 0)

C18_Witness ==
    /\ obs.calls = 9 /\ obs.users = 8 /\ obs.compactions = 1
    /\ obs.failed
    /\ pc = "report"

\* C19 (Spec): whenever a user turn is appended, the history held fewer
\* than 6 user turns before it, in fresh and in resumed runs; so no history
\* ever holds more than 6 user turns.
C19_AppendBelowThreshold ==
    /\ obs.op = "exchange" => UserCount(obs.before) < 6
    /\ UserCount(conversation_history) <= 6

C19_Witness ==
    /\ obs.op = "exchange"
    /\ ~FreshRun
    /\ qi = 7
    /\ UserCount(obs.before) = 0
    /\ UserCount(conversation_history) = 1

\* the compaction step has been applied a second time, to the history the
\* first application left, and the first application had compacted
SecondCompaction ==
    /\ ret.op = "compaction"
    /\ ret.applied = 2
    /\ Len(ret.before) = 1
    /\ ret.before[1].role = "system"
    /\ ret.before[1].content # << >>
    /\ Head(ret.before[1].content) = "SUMMARY_HEAD"

\* C20 as stated (SpecApi): the compaction step applied a second time right
\* after a compaction, with no user turn appended in between, does not
\* compact again (the history holds 0 user turns): it sends no request for
\* a summary and leaves the history as it was.
C20_SecondCompactionIdle ==
    SecondCompaction =>
        /\ UserCount(ret.before) = 0
        /\ ret.request = << >>
        /\ ret.history = ret.before

\* C20 as amended (SpecApi): the compaction step has no condition.  Applied
\* a second time right after a compaction, to a history of 0 user turns,
\* it compacts again: it sends one more request for a summary, whose
\* transcript is empty because the summary turn has the role system, and,
\* when the service answers with a text, replaces the history by a single
\* new system turn headed "summary of 1 messages" with that text.  The
\* history differs from the one before unless the first compaction was of
\* exactly one turn and the service gave the same text twice; it is left
\* as it was when the service answers without a text.
C20_SecondCompactionCompacts ==
    SecondCompaction =>
        /\ UserCount(ret.before) = 0
        /\ ret.request =
              << Turn("system", << "SUMMARY_INSTRUCTION" >>),
                 Turn("user", << "PROMPT_HEAD", "PROMPT_TAIL" >>) >>
        /\ (ret.result.raised = "" /\ ret.result.is_str) =>
              /\ ret.history =
                    << Turn("system",
                            << "SUMMARY_HEAD", "1", " messages):", "\n" >>
                                \o ret.result.text) >>
              /\ ( \/ Len(arg.messages) # 1
                   \/ ret.result.text # SubSeq(ret.before[1].content, 5,
                                               Len(ret.before[1].content)) )
                    => ret.history # ret.before
        /\ ~(ret.result.raised = "" /\ ret.result.is_str) =>
              ret.history = ret.before

\* a second application has replaced the summary turn of a three-turn
\* history by another one
C20_Witness ==
    /\ SecondCompaction
    /\ Len(arg.messages) = 3
    /\ ret.result.raised = "" /\ ret.result.is_str
    /\ ret.history # ret.before
    /\ Len(ret.history) = 1

\* the files a save_context_to_json wrote carry its timestamp
WrittenBySave(f) == f \in DOMAIN files /\ files[f].timestamp # << >>

Listed == { ret.listing[k] : k \in 1..Len(ret.listing) }

\* C13 (SpecStore): the list is in lexically descending order of the names,
\* and that order is most recent first: of two records saved at different
\* times the one saved later comes earlier in the list.
C13_MostRecentFirst ==
    ret.op = "list" =>
        \A i, j \in 1..Len(ret.listing) :
            i < j =>
                /\ StrLess(ret.listing[j], ret.listing[i])
                /\ ( /\ WrittenBySave(ret.listing[i])
                     /\ WrittenBySave(ret.listing[j])
                     /\ files[ret.listing[i]].timestamp
                           # files[ret.listing[j]].timestamp )
                      => StrLess(files[ret.listing[j]].timestamp,
                                 files[ret.listing[i]].timestamp)

\* C14 as stated (SpecStore): every record a save wrote, under a derived or
\* a given name, is in every later list; the list is empty when memory/
\* does not exist.
C14_EverySavedListed ==
    ret.op = "list" =>
        /\ \A f \in DOMAIN files : WrittenBySave(f) => f \in Listed
        /\ ~memory_dir => ret.listing = << >>

\* C14 as amended (SpecStore): every record a save wrote under a name that
\* ends in .json (every derived name does) is in every later list, and
\* nothing else that a save wrote is; the list is empty when memory/ does
\* not exist.
C14_SavedJsonListed ==
    ret.op = "list" =>
        /\ \A f \in DOMAIN files :
              WrittenBySave(f) => (f \in Listed <=> f[Len(f)] = ".json")
        /\ ~memory_dir => ret.listing = << >>

C14_Witness ==
    /\ ret.op = "list"
    /\ << "b", ".json" >> \in Listed /\ WrittenBySave(<< "b", ".json" >>)
    /\ WrittenBySave(<< "n", ".txt" >>)
    /\ \E f \in Listed : f[1] = "context_"

\* a step that is a save_context_to_json without a name
UnnamedSaveStep ==
    /\ ret'.op = "save" /\ ret'.filename = None
    /\ (ret' # ret \/ files' # files)

\* the other files stay as they are
SaveFrame(name) ==
    /\ DOMAIN files' = (DOMAIN files) \cup { name }
    /\ \A f \in (DOMAIN files) \ { name } : files'[f] = files[f]

\* C15 as stated (SpecStore): a save without a name always makes a new
\* record and alters no record written before: one more record each time.
C15_AlwaysNewRecord ==
    [][ UnnamedSaveStep =>
          /\ Tail(ret'.path) \notin DOMAIN files
          /\ SaveFrame(Tail(ret'.path))
          /\ Cardinality(DOMAIN files') = Cardinality(DOMAIN files) + 1 ]_vars

\* C15 as amended (SpecStore): a save without a name writes the record
\* named by the second in which the call reads the clock for the name and
\* alters no other record; the timestamp inside the record is a later
\* reading of the clock, which can fall in a later second than the name.
\* The save makes a new record (one more in memory/) unless a record of
\* that name exists, as after an earlier save without a name that derived
\* its name within the same second, which it overwrites.
C15_NewUnlessSameSecond ==
    [][ UnnamedSaveStep =>
          LET name == Tail(ret'.path) IN
          /\ name = << "context_" >> \o strftime(now) \o << ".json" >>
          /\ SaveFrame(name)
          /\ now <= now'
          /\ files'[name].timestamp = isoformat(now')
          /\ name \notin DOMAIN files =>
                Cardinality(DOMAIN files') = Cardinality(DOMAIN files) + 1
          /\ name \in DOMAIN files => DOMAIN files' = DOMAIN files ]_vars

\* two saves without a name have left two records beside the files that
\* were there, and one of them carries a timestamp of the second after the
\* one its name is derived from
C15_Witness ==
    /\ ret.op = "save" /\ ret.filename = None
    /\ Cardinality({ f \in DOMAIN files : f[1] = "context_" }) = 2
    /\ ForeignNames \subseteq DOMAIN files
    /\ files[<< "a", ".json" >>] = ForeignFiles[<< "a", ".json" >>]
    /\ \E f \in DOMAIN files :
          /\ f[1] = "context_"
          /\ SubSeq(files[f].timestamp, 1, 7) # SubSeq(f, 2, 8)

\* C16 (SpecApi): calculate_tokens is the sum of the content lengths divided
\* by 4 and rounded down, never negative; a turn with empty content adds
\* nothing, and appending a turn never lowers the result.
C16_TokenEstimate ==
    ret.op = "calculate_tokens" =>
        LET n == chars(arg.messages) IN
        /\ ret.tokens >= 0
        /\ 4 * ret.tokens <= n /\ n < 4 * ret.tokens + 4
        /\ \A r \in { "system", "user", "assistant" } :
              calculate_tokens(Append(arg.messages, Turn(r, << >>))) = ret.tokens
        /\ \A t \in Turns :
              calculate_tokens(Append(arg.messages, t)) >= ret.tokens

C16_Witness ==
    /\ ret.op = "calculate_tokens"
    /\ Len(arg.messages) = 2
    /\ chars(arg.messages) = 3
    /\ ret.tokens = 0

\* the record the last save_context_to_json wrote
LastSaved == files[Tail(ret.path)]

\* C21 as stated (SpecStore): every record a save wrote has the fields
\* timestamp, message_count and conversation_history, and its message_count
\* is the number of turns of its conversation_history.
C21_MessageCountField ==
    \A f \in DOMAIN files :
        WrittenBySave(f) =>
            /\ files[f].keys = { "timestamp", "message_count", "conversation_history" }
            /\ files[f].messages_count = Len(files[f].conversation_history)

\* C21 as amended (SpecStore): every record a save wrote is a JSON object
\* with exactly the fields timestamp, messages_count and
\* conversation_history; its messages_count is the number of turns of its
\* conversation_history, and the record of the last save counts the turns
\* that were passed and carries the time of a call.
C21_MessagesCountField ==
    /\ \A f \in DOMAIN files :
          WrittenBySave(f) =>
              /\ files[f].json /\ files[f].object
              /\ files[f].keys = { "timestamp", "messages_count", "conversation_history" }
              /\ files[f].messages_count = Len(files[f].conversation_history)
    /\ ret.op = "save" =>
          /\ \E t \in 0..now : LastSaved.timestamp = isoformat(t)
          /\ LastSaved.messages_count = Len(arg.history)

C21_Witness ==
    /\ ret.op = "save"
    /\ Len(arg.history) = 2
    /\ UserCount(arg.history) = 0
    /\ LastSaved.messages_count = 2
    /\ "messages_count" \in LastSaved.keys

\* sub occurs in s as a run of consecutive pieces
Contains(sub, s) ==
    \E i \in 0..(Len(s) - Len(sub)) : SubSeq(s, i + 1, i + Len(sub)) = sub

\* C22 (Spec): when a run resumed from a snapshot compacts, the content of
\* the summary turn it started with is part of the transcript sent to the
\* summarization call.
C22_SummaryCarried ==
    (obs.op = "compact" /\ obs.restore = "ok") =>
        /\ obs.before[1].role = "system"
        /\ Contains(obs.before[1].content, obs.request[2].content)

RECURSIVE JoinLines(_)
\* the lines joined by newlines
JoinLines(lines) ==
    IF lines = << >> THEN << >>
    ELSE IF Len(lines) = 1 THEN lines[1]
    ELSE lines[1] \o << "\n" >> \o JoinLines(Tail(lines))

\* C23 (SpecApi): the request create_conversation_summary builds is two
\* turns, the system instruction and a user turn; the transcript in the
\* user turn is the lines "<ROLE>: <content>" of the non-system turns of
\* the input, in the input's order, and has no line of a system turn.
C23_TwoTurnRequest ==
    ret.op = "create_conversation_summary" =>
        LET spoken == SelectSeq(arg.messages, LAMBDA m : m.role # "system")
            lines  == [ k \in 1..Len(spoken) |->
                          << upper(spoken[k].role), ": " >> \o spoken[k].content ]
            prompt == ret.request[2].content
        IN  /\ Len(ret.request) = 2
            /\ ret.request[1] = Turn("system", << "SUMMARY_INSTRUCTION" >>)
            /\ ret.request[2].role = "user"
            /\ prompt = << "PROMPT_HEAD" >> \o JoinLines(lines) \o << "PROMPT_TAIL" >>
            /\ \A k \in 1..Len(prompt) : prompt[k] # "SYSTEM"

C23_Witness ==
    /\ ret.op = "create_conversation_summary"
    /\ Len(arg.messages) = 3
    /\ arg.messages[1].role = "assistant"
    /\ arg.messages[2].role = "system"
    /\ arg.messages[3] = Turn("user", << "\\", "n" >>)
    /\ ret.request[2].content =
          << "PROMPT_HEAD", "ASSISTANT", ": ", "\"", "\n", "\n",
             "USER", ": ", "\\", "n", "PROMPT_TAIL" >>

\* C24 (Spec): the count in the summary turn a compaction leaves is the
\* number of turns the history had right before it was replaced, in a run
\* that started empty and in a run resumed from a snapshot.
C24_CountIsHistoryLength ==
    (obs.op = "compact" /\ obs.call.raised = "" /\ obs.call.is_str) =>
        /\ Len(conversation_history) = 1
        /\ conversation_history[1].content =
              << "SUMMARY_HEAD" >> \o Str(Len(obs.before))
                  \o << " messages):", "\n" >> \o obs.call.text
        /\ Len(obs.before) = IF obs.restore = "ok" THEN 13 ELSE 12

C24_Witness ==
    /\ obs.op = "compact" /\ obs.restore = "ok"
    /\ Len(obs.before) = 13
    /\ SubSeq(conversation_history[1].content, 1, 4)
          = << "SUMMARY_HEAD", "1", "3", " messages):" >>

\* C25 (Spec): in every state of a run, started empty or resumed from a
\* snapshot a run wrote, the history has at most 1 + 2*6 = 13 turns, and
\* the request of a user exchange has at most 2*6 = 12 turns.
C25_BoundedHistory ==
    /\ Len(conversation_history) <= 1 + 2 * Threshold
    /\ obs.op = "exchange" => Len(obs.request) <= 2 * Threshold

C25_Witness ==
    /\ obs.op = "exchange" /\ obs.restore = "ok"
    /\ Len(obs.request) = 12
    /\ Len(conversation_history) = 13

-----------------------------------------------------------------------------
(* The /mcp WebSocket of the two MCP servers: src/mcp/mcp_server.py and
   src/mcp/mcp_server2.py, handle_websocket *)

\* the tools each server dispatches in its tools/call branch
ServerTools(server) ==
    IF server = 1 THEN { "get-tracker-tasks", "start-monitoring" }
    ELSE { "translate-to-esperanto" }

\* request ids: 0 stands for an absent id and for JSON null
NullId == 0

Ids == { NullId, 1, 2 }

\* a text frame by what json.loads and the handler make of it.  kind:
\* "notjson" (json.loads raises JSONDecodeError), "deep" (brackets nested
\* beyond the interpreter's recursion limit: json.loads raises
\* RecursionError), "scalar" (valid JSON that is not an object: a list, a
\* number, a string, null), "object".  params and arguments: "absent",
\* "object", or "other" (present and not an object).  text: the argument
\* of translate-to-esperanto, a string that is not blank, of at most 500
\* characters ("str") or of more ("long"), a value that is not a string
\* and is true ("number": 5), a value that is false or a blank string
\* ("zero": 0, null, "", " ").
Frame(kind, id, method, params, name, arguments, text) ==
    [ kind |-> kind, id |-> id, method |-> method, params |-> params,
      name |-> name, arguments |-> arguments, text |-> text ]

Frames ==
    { Frame(k, NullId, "", "absent", "", "absent", "str") :
          k \in { "notjson", "deep", "scalar" } }
    \cup { Frame("object", i, m, "absent", "", "absent", "str") :
             i \in Ids,
             m \in { "initialize", "tools/list", "notifications/initialized",
                     "resources/list", "" } }
    \cup { Frame("object", i, "tools/call", q, "", "absent", "str") :
             i \in Ids, q \in { "absent", "other" } }
    \cup { Frame("object", i, "tools/call", "object", n, a, "str") :
             i \in Ids,
             n \in { "get-tracker-tasks", "start-monitoring",
                     "translate-to-esperanto", "zzz", "" },
             a \in { "absent", "object", "other" } }
    \cup { Frame("object", i, "tools/call", "object",
                 "translate-to-esperanto", "object", t) :
             i \in Ids, t \in { "number", "zero", "long" } }

\* what the Tracker answers to get_tracker_tasks: a list of issues
\* ("issues"), a failed request ("RequestException"), status 200 with a
\* JSON object instead of a list ("object"), a list with an issue whose
\* status or assignee is null ("null field"), status 200 with the empty
\* object ("empty object")
TrackerAnswers ==
    { "issues", "RequestException", "object", "null field", "empty object" }

\* get_tracker_tasks, mcp_server.py 55-108: it returns a JSON text, of the
\* tasks or of an error, and catches only RequestException; task.get on a
\* key of the object and .get on a null status raise AttributeError, and
\* the loop of line 91 has nothing to do on the empty object
get_tracker_tasks(tracker) ==
    IF tracker \in { "object", "null field" } THEN "AttributeError" ELSE ""

\* what MyMemory answers to _translate_chunk (mcp_server2.py 144-186) as
\* translatedText: a text ("str"), or a value that is true and has no
\* length, as the number 5 ("number"); _translate_chunk returns it as it is
TranslationAnswers == { "str", "number" }

\* what the tool called raises, "" when it returns its text: start-monitoring
\* reads tool_arguments.get("port"), translate-to-esperanto reads
\* tool_arguments.get("text") and translate_to_esperanto tests
\* "not text or not text.strip()" (mcp_server2.py 69), so a false value is
\* answered with the text of an error and a true one that is not a string
\* raises
tool_raises(tool_name, frame, tracker) ==
    CASE tool_name = "get-tracker-tasks" -> get_tracker_tasks(tracker)
      [] tool_name = "start-monitoring" ->
            IF frame.arguments = "other" THEN "AttributeError" ELSE ""
      [] OTHER ->
            IF frame.arguments = "other" \/ frame.text = "number"
            THEN "AttributeError" ELSE ""

\* the local variable request before the first json.loads has returned
Unbound == [ kind |-> "unbound" ]

Result(id) == [ id |-> id, code |-> 0 ]

ErrorResponse(id, code) == [ id |-> id, code |-> code ]

\* translate_to_esperanto returns what _translate_chunk returned: the text
\* is a string that is not blank and has at most 500 characters, so it is
\* passed whole (mcp_server2.py 69, 79, 122); a longer text is translated
\* in parts that are joined, and a part that is not a string is answered
\* with the text of an error (lines 117, 135-140)
returns_translation(tool_name, frame) ==
    /\ tool_name = "translate-to-esperanto"
    /\ frame.arguments = "object"
    /\ frame.text = "str"

\* the tools/call branch (mcp_server.py 364-416, mcp_server2.py 313-348):
\* params.get raises on a params that is not an object; a known tool is
\* called and its text sent as the result, unless the call raises; any
\* other name gets -32601.  After the result of translate-to-esperanto is
\* sent, mcp_server2.py 336 logs len(translated_text), which raises
\* TypeError when the translation is a number: the result is on the wire
\* and the exception goes to the handler of the loop body.
tools_call(server, frame, tracker, translation) ==
    IF frame.params = "other" THEN [ raised |-> TRUE, sent |-> << >> ]
    ELSE LET tool_name == IF frame.params = "absent" THEN "" ELSE frame.name
         IN  IF tool_name \notin ServerTools(server)
             THEN [ raised |-> FALSE,
                    sent |-> << ErrorResponse(frame.id, -32601) >> ]
             ELSE IF tool_raises(tool_name, frame, tracker) # ""
             THEN [ raised |-> TRUE, sent |-> << >> ]
             ELSE [ raised |-> returns_translation(tool_name, frame)
                                  /\ translation = "number",
                    sent |-> << Result(frame.id) >> ]

\* the if/elif chain on method, for a request that is an object
dispatch(server, frame, tracker, translation) ==
    CASE frame.method \in { "initialize", "tools/list" } ->
            [ raised |-> FALSE, sent |-> << Result(frame.id) >> ]
      [] frame.method = "tools/call" ->
            tools_call(server, frame, tracker, translation)
      [] frame.method = "notifications/initialized" ->
            [ raised |-> FALSE, sent |-> << >> ]
      [] OTHER ->
            [ raised |-> FALSE, sent |-> << ErrorResponse(frame.id, -32601) >> ]

\* "except Exception" of the loop body: the id is request.get("id") if the
\* name request is bound, else None.  request is the value of the last
\* json.loads that returned: this frame's if it parsed, an earlier frame's
\* if it did not.  On a request that is not an object request.get raises
\* inside the handler, which leaves the loop: nothing is sent and the
\* connection is finished.
except_exception(frame, request) ==
    IF request.kind = "unbound"
    THEN [ open |-> TRUE, sent |-> << ErrorResponse(NullId, -32603) >> ]
    ELSE IF request.kind = "scalar"
    THEN [ open |-> FALSE, sent |-> << >> ]
    ELSE [ open |-> TRUE, sent |-> << ErrorResponse(request.id, -32603) >> ]

\* one pass of the loop body for a received frame: what is sent, whether
\* the loop goes on, and the value of the local request afterwards; what
\* the branch sent before it raised is followed by what the handler sends
handle_frame(server, frame, request, tracker, translation) ==
    CASE frame.kind = "notjson" ->
            [ open |-> TRUE, request |-> request,
              sent |-> << ErrorResponse(NullId, -32700) >> ]
      [] frame.kind = "deep" ->
            LET h == except_exception(frame, request)
            IN  [ open |-> h.open, request |-> request, sent |-> h.sent ]
      [] frame.kind = "scalar" ->
            LET h == except_exception(frame, frame)
            IN  [ open |-> h.open, request |-> frame, sent |-> h.sent ]
      [] OTHER ->
            LET d == dispatch(server, frame, tracker, translation)
                h == except_exception(frame, frame)
            IN  IF d.raised
                THEN [ open |-> h.open, request |-> frame,
                       sent |-> d.sent \o h.sent ]
                ELSE [ open |-> TRUE, request |-> frame, sent |-> d.sent ]

\* a connection to one of the two servers, accepted
InitMcp ==
    /\ InitCalls
    /\ memory_dir = FALSE
    /\ files = NoFiles
    /\ now = 0
    /\ arg \in [ server : { 1, 2 } ]
    /\ ret = [ open |-> TRUE, request |-> Unbound, received |-> 0,
               frame |-> Unbound, sent |-> << >>, answers |-> << >> ]

\* websocket.receive_text() returns a frame and the loop body handles it;
\* tracker is what the Tracker answers if the frame calls get-tracker-tasks,
\* translation what MyMemory answers if it calls translate-to-esperanto.
\* ret.sent is what has been sent on the connection, each response with
\* the number of the frame it was sent for; ret.answers is what was sent
\* for this frame.
Receive(frame, tracker, translation) ==
    /\ pc = "call"
    /\ ret.open
    /\ ret.received < MaxFrames
    /\ LET h == handle_frame(arg.server, frame, ret.request, tracker,
                             translation)
           n == ret.received + 1
       IN  ret' = [ open |-> h.open, request |-> h.request, received |-> n,
                    frame |-> frame,
                    sent |-> ret.sent \o [ k \in 1..Len(h.sent) |->
                                [ id |-> h.sent[k].id, code |-> h.sent[k].code,
                                  for |-> n ] ],
                    answers |-> h.sent ]
    /\ UNCHANGED << memory_dir, files, now, arg >>
    /\ UnchangedMain

\* the client closes: receive_text raises, the outer handler logs it
Disconnect ==
    /\ pc = "call"
    /\ ret.open
    /\ ret' = [ ret EXCEPT !.open = FALSE, !.frame = Unbound,
                           !.answers = << >> ]
    /\ UNCHANGED << memory_dir, files, now, arg >>
    /\ UnchangedMain

NextMcp ==
    \/ \E frame \in Frames, tracker \in TrackerAnswers,
          translation \in TranslationAnswers :
              Receive(frame, tracker, translation)
    \/ Disconnect

SpecMcp == InitMcp /\ [][NextMcp]_vars

\* the last step handled a frame
Handled == ret.frame.kind # "unbound"

\* C26 (SpecMcp): for every text frame received the handler sends exactly
\* one response, none for a frame with method notifications/initialized,
\* also for frames that are not JSON and frames that are JSON but not an
\* object, and afterwards goes on to receive on the same connection.
C26_OneResponsePerFrame ==
    Handled =>
        /\ Len(ret.answers) =
              IF ret.frame.kind = "object"
                 /\ ret.frame.method = "notifications/initialized"
              THEN 0 ELSE 1
        /\ ret.open

\* C27 (SpecMcp): a response sent for a frame that parsed as an object
\* carries that request's id; responses are sent in the order of the
\* frames; an unknown method or an unknown tool gets -32601; a frame that
\* fails to parse gets -32700 with id null.
C27_IdsAndCodes ==
    /\ \A i, j \in 1..Len(ret.sent) : i < j => ret.sent[i].for <= ret.sent[j].for
    /\ Handled =>
          /\ ret.frame.kind = "object" =>
                \A k \in 1..Len(ret.answers) : ret.answers[k].id = ret.frame.id
          /\ ( /\ ret.frame.kind = "object"
               /\ \/ ret.frame.method \in { "resources/list", "" }
                  \/ /\ ret.frame.method = "tools/call"
                     /\ ret.frame.params # "other"
                     /\ (IF ret.frame.params = "absent" THEN "" ELSE ret.frame.name)
                            \notin ServerTools(arg.server) )
                => ret.answers = << ErrorResponse(ret.frame.id, -32601) >>
          /\ ret.frame.kind \in { "notjson", "deep" }
                => ret.answers = << ErrorResponse(NullId, -32700) >>

-----------------------------------------------------------------------------
(* translate_to_esperanto of src/mcp/mcp_server2.py *)

\* line 77
max_chunk_size == 500

\* A text is its sentences in order, each with its length in characters
\* and the separator that follows it: ". " inside a paragraph, "\n\n"
\* between paragraphs, "" after the last.  A sentence holds no white space
\* and no separator, so text.split('\n\n') and para.split('. ') give back
\* the paragraphs and the sentences.
SentenceLens == { 0, 1, 249, 499, 500 }

Texts ==
    UNION { { t \in [ 1..n -> [ len : SentenceLens, sep : { "", ". ", "\n\n" } ] ] :
                \A k \in 1..n : (t[k].sep = "") <=> (k = n) } :
            n \in 1..MaxSentences }

RECURSIVE SumLens(_)
SumLens(lens) == IF lens = << >> THEN 0 ELSE Head(lens) + SumLens(Tail(lens))

\* len of a string made of parts with a two-character separator between them
joined_len(lens) == SumLens(lens) + 2 * (Len(lens) - 1)

RECURSIVE split_paragraphs(_, _)
\* text.split('\n\n'), line 82: the paragraphs, each as the lengths of its
\* sentences; current is the paragraph being read
split_paragraphs(text, current) ==
    IF text = << >> THEN << >>
    ELSE LET para == Append(current, Head(text).len)
         IN  IF Head(text).sep = ". "
             THEN split_paragraphs(Tail(text), para)
             ELSE << para >> \o split_paragraphs(Tail(text), << >>)

\* len(text)
text_len(text) ==
    joined_len([ k \in 1..Len(text) |-> text[k].len ])

\* "not text or not text.strip()", line 69: the text is empty or white space
blank(text) ==
    \A k \in 1..Len(text) : text[k].len = 0 /\ text[k].sep # ". "

RECURSIVE split_sentences(_, _)
\* lines 92-109: the fragments passed to _translate_chunk for a paragraph
\* longer than max_chunk_size; chunk is len(chunk), and chunk.strip() drops
\* the space that ends it
split_sentences(sentences, chunk) ==
    IF sentences = << >>
    THEN IF chunk > 0 THEN << chunk - 1 >> ELSE << >>
    ELSE LET sentence == Head(sentences)
         IN  IF chunk + sentence < max_chunk_size
             THEN split_sentences(Tail(sentences), chunk + sentence + 2)
             ELSE (IF chunk > 0 THEN << chunk - 1 >> ELSE << >>)
                      \o split_sentences(Tail(sentences), sentence + 2)

RECURSIVE split_text(_)
\* lines 84-115: the fragments for the paragraphs of a long text
split_text(paragraphs) ==
    IF paragraphs = << >> THEN << >>
    ELSE LET para == Head(paragraphs)
             here == IF joined_len(para) = 0 THEN << >>
                     ELSE IF joined_len(para) > max_chunk_size
                     THEN split_sentences(para, 0)
                     ELSE << joined_len(para) >>
         IN  here \o split_text(Tail(paragraphs))

\* the lengths of the fragments translate_to_esperanto passes to
\* _translate_chunk, in order, when every call returns a translation
fragments(text) ==
    IF blank(text) THEN << >>
    ELSE IF text_len(text) > max_chunk_size
    THEN split_text(split_paragraphs(text, << >>))
    ELSE << text_len(text) >>

\* translate_to_esperanto(text): raises_at is the number of the call of
\* _translate_chunk that raises (0: none does); the calls made are those up
\* to it, and the result is a translation or the JSON text of an error
translate_to_esperanto(text, raises_at) ==
    LET all == fragments(text)
        failed == raises_at >= 1 /\ raises_at <= Len(all)
    IN  [ passed |-> IF failed THEN SubSeq(all, 1, raises_at) ELSE all,
          result |-> IF blank(text) \/ failed THEN "error" ELSE "translation" ]

InitTranslate ==
    /\ InitCalls
    /\ memory_dir = FALSE
    /\ files = NoFiles
    /\ now = 0
    /\ arg \in [ text : Texts, raises_at : 0..MaxSentences ]
    /\ ret = [ op |-> "", passed |-> << >>, result |-> "" ]

TranslateCall ==
    /\ pc = "call"
    /\ ret.op = ""
    /\ LET r == translate_to_esperanto(arg.text, arg.raises_at)
       IN  ret' = [ op |-> "translate_to_esperanto", passed |-> r.passed,
                    result |-> r.result ]
    /\ UNCHANGED << memory_dir, files, now, arg >>
    /\ UnchangedMain

NextTranslate == TranslateCall

SpecTranslate == InitTranslate /\ [][NextTranslate]_vars

\* C28 (SpecTranslate): every fragment translate_to_esperanto passes to
\* _translate_chunk is shorter than 500 characters, for every text.
C28_FragmentsBelow500 ==
    ret.op = "translate_to_esperanto" =>
        \A k \in 1..Len(ret.passed) : ret.passed[k] < 500

-----------------------------------------------------------------------------
(* The Telegram bot of src/bot.py: one user's chat.  The dispatcher runs one
   handler at a time, in the order of the updates. *)

\* the texts the user sends
Questions == { "q1", "q2" }

\* context.user_data before any question is stored
NoUserData == [ k \in {} |-> "" ]

\* context.user_data.get('question', 'No question provided'), line 47
stored_question(user_data) ==
    IF "question" \in DOMAIN user_data THEN user_data["question"]
    ELSE "No question provided"

\* the message of lines 35-39: the question and the "Ask LLM" button
prompt_message(user_question) ==
    [ text |-> "Your question", question |-> user_question, button |-> TRUE ]

\* the message after edit_message_text of lines 48-50: the echo, and no
\* keyboard any more
answer_message(user_question) ==
    [ text |-> "You asked", question |-> user_question, button |-> FALSE ]

\* the message of start (lines 21-24) and of help_command (lines 26-28):
\* a text without a keyboard
plain_message(text) == [ text |-> text, question |-> "", button |-> FALSE ]

InitBot ==
    /\ InitCalls
    /\ memory_dir = FALSE
    /\ files = NoFiles
    /\ now = 0
    /\ arg = << >>
    /\ ret = [ op |-> "", user_data |-> NoUserData, chat |-> << >>,
               shown |-> "", echoed |-> "" ]

\* ask_question, lines 30-39: the user sends a text that is not a command
ask_question(user_question) ==
    /\ pc = "call"
    /\ Len(ret.chat) < MaxQuestions
    /\ ret' = [ op |-> "ask_question",
                user_data |-> [ k \in { "question" } |-> user_question ],
                chat |-> Append(ret.chat, prompt_message(user_question)),
                shown |-> "", echoed |-> "" ]
    /\ UNCHANGED << memory_dir, files, now, arg >>
    /\ UnchangedMain

\* start, lines 21-24: the user sends /start
start ==
    /\ pc = "call"
    /\ Len(ret.chat) < MaxQuestions
    /\ ret' = [ ret EXCEPT !.op = "start",
                           !.chat = Append(@, plain_message("Hi")),
                           !.shown = "", !.echoed = "" ]
    /\ UNCHANGED << memory_dir, files, now, arg >>
    /\ UnchangedMain

\* help_command, lines 26-28: the user sends /help
help_command ==
    /\ pc = "call"
    /\ Len(ret.chat) < MaxQuestions
    /\ ret' = [ ret EXCEPT !.op = "help_command",
                           !.chat = Append(@, plain_message("Send me a question")),
                           !.shown = "", !.echoed = "" ]
    /\ UNCHANGED << memory_dir, files, now, arg >>
    /\ UnchangedMain

\* button_handler, lines 41-50: the user presses the button of message k.
\* shown is the question that message displayed, echoed the one the reply
\* repeats.
button_handler(k) ==
    /\ pc = "call"
    /\ k \in 1..Len(ret.chat)
    /\ ret.chat[k].button
    /\ LET user_question == stored_question(ret.user_data)
       IN  ret' = [ ret EXCEPT !.op = "button_handler",
                               !.chat[k] = answer_message(user_question),
                               !.shown = ret.chat[k].question,
                               !.echoed = user_question ]
    /\ UNCHANGED << memory_dir, files, now, arg >>
    /\ UnchangedMain

NextBot ==
    \/ start
    \/ help_command
    \/ \E user_question \in Questions : ask_question(user_question)
    \/ \E k \in 1..MaxQuestions : button_handler(k)

SpecBot == InitBot /\ [][NextBot]_vars

\* C29 (SpecBot): the reply to a button press echoes the question shown in
\* the message that carries the pressed button.
C29_EchoesShownQuestion ==
    ret.op = "button_handler" => ret.echoed = ret.shown

-----------------------------------------------------------------------------
(* start_monitoring_container of src/mcp/mcp_server.py and the container
   aibot-monitor of the Docker daemon *)

\* no container of the name aibot-monitor
NoContainer == [ running |-> FALSE, id |-> 0, port |-> 0 ]

\* the values of the tool's argument port; 8001 is the default
Ports == { 8001, 8080 }

\* how the steps of one call go: docker.from_env(), existing.stop(),
\* existing.remove() (the container was started with remove=True, so the
\* daemon may have removed it already: NotFound), the Dockerfile being
\* there, client.images.build(), client.containers.run()
Outcomes ==
    [ from_env : { "ok", "DockerException" },
      stop : { "ok", "APIError" },
      remove : { "ok", "NotFound", "APIError" },
      dockerfile : BOOLEAN,
      build : { "ok", "BuildError", "APIError" },
      run : { "ok", "APIError" } ]

\* lines 131-141: the container of that name, if there is one, is stopped
\* and removed; an APIError other than NotFound leaves the function
stop_existing(container, env) ==
    IF ~container.running THEN [ raised |-> "", container |-> container ]
    ELSE IF env.stop # "ok" THEN [ raised |-> "APIError", container |-> container ]
    ELSE IF env.remove = "APIError"
    THEN [ raised |-> "APIError", container |-> NoContainer ]
    ELSE [ raised |-> "", container |-> NoContainer ]

\* start_monitoring_container(port): the result it returns ("success", or
\* "error" with the message's beginning), the container afterwards and
\* whether the image aibot-monitoring:latest is there; started is the
\* number of containers started so far
start_monitoring_container(port, available, container, image, started, env) ==
    IF ~available
    THEN [ result |-> "error", error |-> "Docker SDK not installed",
           container |-> container, image |-> image ]
    ELSE IF env.from_env # "ok"
    THEN [ result |-> "error", error |-> "Failed to start monitoring",
           container |-> container, image |-> image ]
    ELSE LET stopped == stop_existing(container, env)
         IN  IF stopped.raised # ""
             THEN [ result |-> "error", error |-> "Docker API error",
                    container |-> stopped.container, image |-> image ]
             ELSE IF ~env.dockerfile
             THEN [ result |-> "error", error |-> "Dockerfile not found",
                    container |-> stopped.container, image |-> image ]
             ELSE IF env.build = "BuildError"
             THEN [ result |-> "error", error |-> "Failed to build Docker image",
                    container |-> stopped.container, image |-> image ]
             ELSE IF env.build = "APIError"
             THEN [ result |-> "error", error |-> "Docker API error",
                    container |-> stopped.container, image |-> image ]
             ELSE IF env.run = "APIError"
             THEN [ result |-> "error", error |-> "Docker API error",
                    container |-> stopped.container, image |-> TRUE ]
             ELSE [ result |-> "success", error |-> "", image |-> TRUE,
                    container |-> [ running |-> TRUE, id |-> started + 1,
                                    port |-> port ] ]

InitMonitor ==
    /\ InitCalls
    /\ memory_dir = FALSE
    /\ files = NoFiles
    /\ now = 0
    /\ arg \in [ DOCKER_AVAILABLE : BOOLEAN ]
    /\ ret = [ op |-> "", container |-> NoContainer, image |-> FALSE,
               started |-> 0, calls |-> 0,
               before |-> NoContainer, result |-> "", error |-> "" ]

\* the tool start-monitoring is called
StartMonitoring(port, env) ==
    /\ pc = "call"
    /\ ret.calls < MaxStarts
    /\ LET r == start_monitoring_container(port, arg.DOCKER_AVAILABLE,
                                           ret.container, ret.image,
                                           ret.started, env)
       IN  ret' = [ op |-> "start_monitoring_container",
                    container |-> r.container, image |-> r.image,
                    started |-> IF r.result = "success" THEN ret.started + 1
                                ELSE ret.started,
                    calls |-> ret.calls + 1,
                    before |-> ret.container,
                    result |-> r.result, error |-> r.error ]
    /\ UNCHANGED << memory_dir, files, now, arg >>
    /\ UnchangedMain

\* the monitor exits or is stopped by hand; started with remove=True, it is
\* removed by the daemon
ContainerExits ==
    /\ pc = "call"
    /\ ret.container.running
    /\ ret' = [ ret EXCEPT !.op = "exit", !.container = NoContainer,
                           !.before = ret.container,
                           !.result = "", !.error = "" ]
    /\ UNCHANGED << memory_dir, files, now, arg >>
    /\ UnchangedMain

NextMonitor ==
    \/ \E port \in Ports, env \in Outcomes : StartMonitoring(port, env)
    \/ ContainerExits

SpecMonitor == InitMonitor /\ [][NextMonitor]_vars

\* C30 (SpecMonitor): when start_monitoring_container returns an error, a
\* container aibot-monitor that ran before the call still runs after it.
C30_FailureAtomic ==
    ( /\ ret.op = "start_monitoring_container"
      /\ ret.result = "error"
      /\ ret.before.running )
        => ret.container = ret.before

====
